---- MODULE Spec2Model ----
(***************************************************************************)
(* Model of the three command-line tools of the repository:                *)
(*   src/10/product_filter.py  - catalog filter driven by a function call  *)
(*   src/11/main.py            - audio transcription and analytics         *)
(*   src/9/service_analyzer.py - service report                            *)
(* Text values are sequences of one-character strings, so that str.lower   *)
(* and the comparison of names are computed and not assumed.  Prices and   *)
(* ratings are integers (whole currency units, whole stars); durations     *)
(* are counted in tenths of a minute.                                      *)
(***************************************************************************)
EXTENDS Integers, Sequences, FiniteSets, TLC

VARIABLES
    products,      \* ProductFilter.products: the loaded catalog
    loaded,        \* what _load_products returned at start-up (history)
    response,      \* the last model response seen by search_products
    results,       \* the list search_products returned last
    run_pc,        \* position of ProductFilter.run: "prompt" or "exited"
    filtered,      \* the local `filtered` of filter_products, step by step
    pending,       \* the filter steps not applied yet to `filtered`
    has_key,       \* audio tool: an API key is given (flag or environment)
    has_file,      \* audio tool: the audio file exists
    a_pc,          \* audio tool: the next step of main / process_audio
    calls,         \* audio tool: the API calls issued so far, in order
    word_count,    \* audio tool: len(transcript.split())
    duration_content,  \* message content of the duration response
    topics_content,    \* message content of the topics response
    analytics,     \* what calculate_analytics returned
    files,         \* the output files written by save_results
    exit_code,     \* process exit status; -1 while running
    failure,       \* audio tool: the step whose exception ended the run
    analysis_file, \* audio tool: the text of the analysis JSON file
    catalog_file,  \* product tool: the catalog file is "ok", "missing", "invalid"
    p_has_key,     \* product tool: OPENAI_API_KEY is set
    p_client,      \* product tool: the OpenAI client was constructed
    p_called,      \* product tool: some API call was issued in this run
    p_exit,        \* product tool: process exit status; -1 while running
    user_input,    \* product tool: what input() gave in the last iteration
    shown,         \* product tool: what the last iteration printed
    iter_called,   \* product tool: the last iteration issued an API call
    filter_applied, \* product tool: the last iteration called filter_products
    s_pc,          \* service tool: position in main
    s_has_key,     \* service tool: OPENAI_API_KEY is set
    s_flag,        \* service tool: "service" for --service, "text" for --text
    s_value,       \* service tool: the value passed with that flag
    s_output,      \* service tool: --output is "absent", "empty" or a "path"
    s_input,       \* service tool: input_text of main
    s_is_name,     \* service tool: is_service_name of main
    s_prompt,      \* service tool: the prompt sent to the API
    s_called,      \* service tool: the API call was issued
    s_api,         \* service tool: how the API call ended
    s_report,      \* service tool: what analyze_service returned
    s_file,        \* service tool: the report written to the output file
    s_printed,     \* service tool: the report printed
    s_write_failed, \* service tool: writing the output file raised
    s_exit         \* service tool: process exit status; -1 while running

productVars == <<products, loaded, response, results, run_pc, filtered, pending>>
loopVars == <<catalog_file, p_has_key, p_client, p_called, p_exit, user_input,
              shown, iter_called, filter_applied>>
audioVars == <<has_key, has_file, a_pc, calls, word_count, duration_content,
               topics_content, analytics, files, exit_code>>
audioMore == <<failure, analysis_file>>
serviceVars == <<s_pc, s_has_key, s_flag, s_value, s_output, s_input, s_is_name,
                 s_prompt, s_called, s_api, s_report, s_file, s_printed,
                 s_write_failed, s_exit>>
vars == <<productVars, loopVars, audioVars, audioMore, serviceVars>>

\* ------------------------------------------------------------------ bounds

MaxCatalog == 2     \* records in a catalog
MaxGiven == 1       \* criteria one query of the interactive loop supplies
MaxWords == 100     \* words in the longest transcript
MaxTokens == 4      \* tokens in the content of a topics response

\* -------------------------------------------------------------------- text

UpperChars == <<"A","B","C","D","E","F","G","H","I","J","K","L","M",
                "N","O","P","Q","R","S","T","U","V","W","X","Y","Z">>
LowerChars == <<"a","b","c","d","e","f","g","h","i","j","k","l","m",
                "n","o","p","q","r","s","t","u","v","w","x","y","z">>

\* the lower-case letter of each upper-case letter
LowerOf ==
    [c \in { UpperChars[i] : i \in DOMAIN UpperChars } |->
        LowerChars[CHOOSE i \in DOMAIN UpperChars : UpperChars[i] = c]]

lower_char(c) == IF c \in DOMAIN LowerOf THEN LowerOf[c] ELSE c

\* str.lower()
lower(s) == [i \in DOMAIN s |-> lower_char(s[i])]

Widget  == <<"W","i","d","g","e","t">>
widget  == <<"w","i","d","g","e","t">>
Gadget  == <<"G","a","d","g","e","t">>
Books   == <<"B","o","o","k","s">>
books   == <<"b","o","o","k","s">>
BOOKS   == <<"B","O","O","K","S">>
Kitchen == <<"K","i","t","c","h","e","n">>
EmptyText == <<>>

\* ----------------------------------------------------------------- catalog

Product(n, c, p, r, s) ==
    [name |-> n, category |-> c, price |-> p, rating |-> r, in_stock |-> s]

\* The records a catalog file of the model is made of.
ProductPool ==
    { Product(Widget, Books,   0, 0, TRUE),
      Product(widget, BOOKS,   1, 4, FALSE),
      Product(Gadget, Kitchen, 2, 5, TRUE) }

SeqsUpTo(S, n) == UNION { [1..k -> S] : k \in 0..n }

Catalogs == SeqsUpTo(ProductPool, MaxCatalog)

\* ---------------------------------------------------------------- criteria
\* One keyword argument of filter_products.  given = FALSE is a key that is
\* absent or null (filters.get returns None for both).

NamesArg(g, l, ns, t) == [given |-> g, is_list |-> l, names |-> ns, text |-> t]
TextArg(g, t)  == [given |-> g, text |-> t]
NumArg(g, n)   == [given |-> g, num |-> n]
BoolArg(g, b)  == [given |-> g, flag |-> b]

NoNames == NamesArg(FALSE, TRUE, <<>>, EmptyText)
NoText  == TextArg(FALSE, EmptyText)
NoNum   == NumArg(FALSE, 0)
NoBool  == BoolArg(FALSE, FALSE)

NameArgs ==
    { NoNames,
      NamesArg(TRUE, TRUE, <<>>, EmptyText),
      NamesArg(TRUE, TRUE, <<Widget>>, EmptyText),
      NamesArg(TRUE, TRUE, <<Gadget, Widget>>, EmptyText),
      NamesArg(TRUE, FALSE, <<>>, Gadget) }
CategoryArgs == { NoText, TextArg(TRUE, EmptyText), TextArg(TRUE, books),
                  TextArg(TRUE, Books) }
MaxPriceArgs  == { NoNum, NumArg(TRUE, 0), NumArg(TRUE, 1) }
MinPriceArgs  == { NoNum, NumArg(TRUE, 0), NumArg(TRUE, 1) }
MinRatingArgs == { NoNum, NumArg(TRUE, 0), NumArg(TRUE, 4) }
InStockArgs   == { NoBool, BoolArg(TRUE, TRUE), BoolArg(TRUE, FALSE) }

Filters(n, c, mx, mn, r, s) ==
    [product_names |-> n, category |-> c, max_price |-> mx,
     min_price |-> mn, min_rating |-> r, in_stock |-> s]

NoFilters == Filters(NoNames, NoText, NoNum, NoNum, NoNum, NoBool)

FilterArgs ==
    { Filters(n, c, mx, mn, r, s) :
        n \in NameArgs, c \in CategoryArgs, mx \in MaxPriceArgs,
        mn \in MinPriceArgs, r \in MinRatingArgs, s \in InStockArgs }

\* ---------------------------------------------------------- filter_products

\* A list comprehension [p for p in filtered if keep(p)] is SelectSeq.

\* Python truth value of filters.get('product_names')
names_truthy(a) ==
    a.given /\ (IF a.is_list THEN a.names # <<>> ELSE a.text # EmptyText)

\* Python truth value of filters.get('category')
text_truthy(a) == a.given /\ a.text # EmptyText

\* filters.get(key) is not None
is_not_None(a) == a.given

\* float(v) of a JSON number: the same number (exact below 2^53)
float(v) == v

name_in(n, names) == \E i \in DOMAIN names : names[i] = n


\* by_product_names stopping at the first match
by_product_names_first(list, filters) ==
    IF names_truthy(filters.product_names)
    THEN LET keep(p) == IF filters.product_names.is_list
                        THEN name_in(p.name, filters.product_names.names)
                        ELSE p.name = filters.product_names.text
             all == SelectSeq(list, keep)
         IN IF all = <<>> THEN <<>> ELSE <<Head(all)>>
    ELSE list

by_product_names(list, filters) ==
    IF names_truthy(filters.product_names)
    THEN IF filters.product_names.is_list
         THEN LET keep(p) == name_in(p.name, filters.product_names.names)
              IN SelectSeq(list, keep)
         ELSE LET keep(p) == p.name = filters.product_names.text
              IN SelectSeq(list, keep)
    ELSE list


\* by_category comparing the record's category as it is written
by_category_exact(list, filters) ==
    IF text_truthy(filters.category)
    THEN LET category == lower(filters.category.text)
             keep(p) == p.category = category
         IN SelectSeq(list, keep)
    ELSE list

by_category(list, filters) ==
    IF text_truthy(filters.category)
    THEN LET category == lower(filters.category.text)
             keep(p) == lower(p.category) = category
         IN SelectSeq(list, keep)
    ELSE list


\* by_max_price guarded by the truth value of max_price
by_max_price_truthy(list, filters) ==
    IF filters.max_price.given /\ filters.max_price.num # 0
    THEN LET max_price == float(filters.max_price.num)
             keep(p) == p.price <= max_price
         IN SelectSeq(list, keep)
    ELSE list

by_max_price(list, filters) ==
    IF is_not_None(filters.max_price)
    THEN LET max_price == float(filters.max_price.num)
             keep(p) == p.price <= max_price
         IN SelectSeq(list, keep)
    ELSE list


\* by_min_price with a strict comparison
by_min_price_strict(list, filters) ==
    IF is_not_None(filters.min_price)
    THEN LET min_price == float(filters.min_price.num)
             keep(p) == p.price > min_price
         IN SelectSeq(list, keep)
    ELSE list

by_min_price(list, filters) ==
    IF is_not_None(filters.min_price)
    THEN LET min_price == float(filters.min_price.num)
             keep(p) == p.price >= min_price
         IN SelectSeq(list, keep)
    ELSE list

by_min_rating(list, filters) ==
    IF is_not_None(filters.min_rating)
    THEN LET min_rating == float(filters.min_rating.num)
             keep(p) == p.rating >= min_rating
         IN SelectSeq(list, keep)
    ELSE list


\* by_in_stock guarded by the truth value of in_stock
by_in_stock_truthy(list, filters) ==
    IF filters.in_stock.given /\ filters.in_stock.flag
    THEN LET keep(p) == p.in_stock = filters.in_stock.flag
         IN SelectSeq(list, keep)
    ELSE list

by_in_stock(list, filters) ==
    IF is_not_None(filters.in_stock)
    THEN LET keep(p) == p.in_stock = filters.in_stock.flag
         IN SelectSeq(list, keep)
    ELSE list

\* The six steps in the order of the source.
NSteps == 6
StepIds == 1..NSteps

filter_step(i, list, filters) ==
    CASE i = 1 -> by_product_names(list, filters)
      [] i = 2 -> by_category(list, filters)
      [] i = 3 -> by_max_price(list, filters)
      [] i = 4 -> by_min_price(list, filters)
      [] i = 5 -> by_min_rating(list, filters)
      [] i = 6 -> by_in_stock(list, filters)

filter_products(list, filters) ==
    by_in_stock(
      by_min_rating(
        by_min_price(
          by_max_price(
            by_category(
              by_product_names(list, filters), filters), filters), filters),
        filters), filters)

\* ---------------------------------------------------------- search_products
\* A model response: kind says what came back from the API call.
\*   "ok"               a filter_products call whose arguments are a mapping
\*   "api_error"        the call raised
\*   "no_function_call" message.function_call is None
\*   "wrong_name"       a call of another function
\*   "bad_json"         the arguments are not JSON
\*   "not_mapping"      the arguments are JSON but no object
\*   "none"             no query was made yet

Resp(k, a) == [kind |-> k, arguments |-> a]

FailureKinds == {"api_error", "no_function_call", "wrong_name", "bad_json",
                 "not_mapping"}

\* How many of the six criteria a call supplies.
given_count(a) ==
    Cardinality({ k \in {"product_names", "category", "max_price", "min_price",
                         "min_rating", "in_stock"} : a[k].given })

QueryArgs == { a \in FilterArgs : given_count(a) <= MaxGiven }

Responses ==
    { Resp("ok", a) : a \in QueryArgs }
    \cup { Resp(k, NoFilters) : k \in FailureKinds }


Reverse(seq) == [i \in DOMAIN seq |-> seq[Len(seq) + 1 - i]]

\* search_products handing back the matches last to first
search_products_reversed(catalog, resp) ==
    IF catalog = <<>>
    THEN <<>>
    ELSE IF resp.kind = "ok"
         THEN Reverse(filter_products(catalog, resp.arguments))
         ELSE <<>>

\* search_products taking a function call of any name
search_products_any_name(catalog, resp) ==
    IF catalog = <<>>
    THEN <<>>
    ELSE IF resp.kind \in {"ok", "wrong_name"}
         THEN filter_products(catalog, resp.arguments)
         ELSE <<>>

search_products(catalog, resp) ==
    IF catalog = <<>>
    THEN <<>>      \* min() of an empty sequence raises; caught, returns []
    ELSE IF resp.kind = "ok"
         THEN filter_products(catalog, resp.arguments)
         ELSE <<>>

\* ------------------------------------------------------------- audio tool
\* Numbers.  A float is finite (the rational num/den), nan or inf.

Fin(n, d) == [k |-> "fin", num |-> n, den |-> d]
NaN == [k |-> "nan", num |-> 0, den |-> 1]
Inf == [k |-> "inf", num |-> 0, den |-> 1]

\* round() of the rational n/d (d > 0) to an integer: nearest, ties to even
round_int(n, d) ==
    LET q == (2 * n + d) \div (2 * d)
    IN IF (2 * n + d) % (2 * d) = 0 /\ q % 2 = 1 THEN q - 1 ELSE q


\* round(x): x to a whole number of minutes
round_whole(x) ==
    IF x.k = "fin" THEN Fin(10 * round_int(x.num, x.den), 10) ELSE x

\* round(x, 1): x to one decimal place, as a count of tenths
round_1(x) ==
    IF x.k = "fin" THEN Fin(round_int(10 * x.num, x.den), 10) ELSE x

\* The speaking rate and the duration assumed when no duration is parsed.
FallbackWpm == 150

\* Content of the duration response: None, text float() rejects, or text
\* float() accepts ("2.5", "0", "-1", "nan", "inf").
NoContent == [kind |-> "none", val |-> NaN]
NotANumber == [kind |-> "text", val |-> NaN]
NumberText(x) == [kind |-> "number", val |-> x]
NotAsked == [kind |-> "not_asked", val |-> NaN]

DurationTenths == {-5, 0, 5, 20}

\* len(transcript.split()) of the transcripts of the model
WordCounts == {0, 1, 8, 15, MaxWords}

DurationContents ==
    { NoContent, NotANumber, NumberText(NaN), NumberText(Inf) }
    \cup { NumberText(Fin(t, 10)) : t \in DurationTenths }

\* x > 0 for a float
positive(x) == (x.k = "inf") \/ (x.k = "fin" /\ x.num > 0)

\* round(word_count / duration_minutes) for duration_minutes > 0
words_per_minute(wc, x) ==
    IF x.k = "inf" THEN 0 ELSE round_int(wc * x.den, x.num)

\* Lines 142-149: the duration and the speaking rate from the response.
duration_and_speed(wc, content) ==
    IF content.kind = "number"
    THEN [duration_minutes |-> content.val,
          speaking_speed_wpm |->
              IF positive(content.val)
              THEN words_per_minute(wc, content.val) ELSE 0]
    ELSE \* .strip() of None or float() of other text raises: bare except
         [duration_minutes |-> Fin(wc, FallbackWpm),
          speaking_speed_wpm |-> FallbackWpm]

\* JSON values a topics response can hold.
Topic(t, m) == [topic |-> t, mentions |-> m]
JsonVal(t, items) == [t |-> t, items |-> items]
TopicsA == JsonVal("topics_array",
                   <<Topic("Customer Service", 8), Topic("Budget Planning", 3)>>)
JsonObject == JsonVal("object", <<>>)
JsonNumber == JsonVal("number", <<>>)
NoJson == JsonVal("none", <<>>)

\* The topic list substituted when the response is not JSON.
DefaultTopics == JsonVal("topics_array", <<Topic("General Discussion", 1)>>)

\* The content of a topics response is a sequence of tokens: a run of three
\* backquotes, the word json, white space, the text of one JSON value, or
\* other text.
Tok(k, v) == [k |-> k, v |-> v]
Fence == Tok("fence", NoJson)
JsonWord == Tok("json", NoJson)
Space == Tok("ws", NoJson)
OtherText == Tok("text", NoJson)
ValueTok(v) == Tok("value", v)

TopicTokens == { Fence, JsonWord, Space, OtherText,
                 ValueTok(TopicsA), ValueTok(JsonObject), ValueTok(JsonNumber) }

TopicsText(toks) == [kind |-> "text", toks |-> toks]
NoTopicsContent == [kind |-> "none", toks |-> <<>>]
TopicsNotAsked == [kind |-> "not_asked", toks |-> <<>>]

TopicsContents ==
    { NoTopicsContent }
    \cup { TopicsText(t) : t \in SeqsUpTo(TopicTokens, MaxTokens) }

RECURSIVE lstrip(_)
lstrip(toks) ==
    IF toks # <<>> /\ Head(toks) = Space THEN lstrip(Tail(toks)) ELSE toks

RECURSIVE rstrip(_)
rstrip(toks) ==
    IF toks # <<>> /\ toks[Len(toks)] = Space
    THEN rstrip(SubSeq(toks, 1, Len(toks) - 1)) ELSE toks

\* str.strip()
strip(toks) == rstrip(lstrip(toks))

\* the text with every ```json left in place
keep_json_fence(toks) == toks

\* replace('```json', ''): one pass, left to right
RECURSIVE remove_json_fence(_)
remove_json_fence(toks) ==
    IF toks = <<>> THEN <<>>
    ELSE IF Len(toks) >= 2 /\ toks[1] = Fence /\ toks[2] = JsonWord
         THEN remove_json_fence(SubSeq(toks, 3, Len(toks)))
         ELSE <<Head(toks)>> \o remove_json_fence(Tail(toks))

\* replace('```', '')
remove_fence(toks) == LET keep(t) == t # Fence IN SelectSeq(toks, keep)

\* Lines 180-182
clean_topics_text(toks) == strip(remove_fence(remove_json_fence(strip(toks))))

\* json.loads: one JSON value, white space around it allowed
json_loads(toks) ==
    LET body == strip(toks)
    IN IF Len(body) = 1 /\ body[1].k = "value"
       THEN [ok |-> TRUE, value |-> body[1].v]
       ELSE [ok |-> FALSE, value |-> NoJson]     \* JSONDecodeError

\* Lines 178-188.  raised: an exception other than JSONDecodeError leaves
\* the try block (None has no strip).
parse_topics(content) ==
    IF content.kind = "none"
    THEN [raised |-> TRUE, topics |-> NoJson]
    ELSE LET parsed == json_loads(clean_topics_text(content.toks))
         IN [raised |-> FALSE,
             topics |-> IF parsed.ok THEN parsed.value ELSE DefaultTopics]

Analytics(wc, wpm, minutes, topics) ==
    [made |-> TRUE, word_count |-> wc, speaking_speed_wpm |-> wpm,
     estimated_duration_minutes |-> minutes,
     frequently_mentioned_topics |-> topics]

NoAnalytics ==
    [made |-> FALSE, word_count |-> 0, speaking_speed_wpm |-> 0,
     estimated_duration_minutes |-> NaN,
     frequently_mentioned_topics |-> NoJson]

\* Lines 190-195
make_analytics(wc, dcontent, topics) ==
    LET ds == duration_and_speed(wc, dcontent)
    IN Analytics(wc, ds.speaking_speed_wpm, round_1(ds.duration_minutes), topics)

\* ------------------------------------------------- the analysis JSON file
\* json.dump writes a number as a literal; json.load reads the literal back.

IntLit(n) == [lit |-> "int", num |-> n, den |-> 1]

\* float.__repr__, with allow_nan: NaN and Infinity are written as such
FloatLit(x) ==
    CASE x.k = "nan" -> [lit |-> "NaN", num |-> 0, den |-> 1]
      [] x.k = "inf" -> [lit |-> "Infinity", num |-> 0, den |-> 1]
      [] OTHER -> [lit |-> "float", num |-> x.num, den |-> x.den]

\* the float a literal is read as
read_float(l) ==
    CASE l.lit = "NaN" -> NaN
      [] l.lit = "Infinity" -> Inf
      [] OTHER -> Fin(l.num, l.den)

\* json.dump(analytics, f, indent=2, ensure_ascii=False), lines 242-243
json_dump(a) ==
    [written |-> TRUE,
     word_count |-> IntLit(a.word_count),
     speaking_speed_wpm |-> IntLit(a.speaking_speed_wpm),
     estimated_duration_minutes |-> FloatLit(a.estimated_duration_minutes),
     frequently_mentioned_topics |->
         <<Space, ValueTok(a.frequently_mentioned_topics), Space>>]

NoFile ==
    [written |-> FALSE, word_count |-> IntLit(0),
     speaking_speed_wpm |-> IntLit(0),
     estimated_duration_minutes |-> FloatLit(NaN),
     frequently_mentioned_topics |-> <<>>]

\* json.load of the analysis file
json_load(f) ==
    Analytics(f.word_count.num, f.speaking_speed_wpm.num,
              read_float(f.estimated_duration_minutes),
              json_loads(f.frequently_mentioned_topics).value)

\* x == y for two Python floats: nan is equal to nothing
float_eq(x, y) == x.k # "nan" /\ y.k # "nan" /\ x = y

\* ------------------------------------------------------ the input of run

InQuit  == <<"q","u","i","t">>
InQUIT  == <<"Q","U","I","T">>
InExit  == <<" ","E","x","i","t"," ">>
InQ     == <<"q">>
InBlank == <<" "," ">>
InQuery == <<"q","u","i","t","s">>

TextIn(t) == [kind |-> "text", text |-> t]
Interrupt == [kind |-> "interrupt", text |-> EmptyText]
EndOfInput == [kind |-> "eof", text |-> EmptyText]
NoInput == [kind |-> "none", text |-> EmptyText]

InputTexts == { EmptyText, InBlank, InQuit, InQUIT, InExit, InQ, InQuery }

RECURSIVE text_lstrip(_)
text_lstrip(t) ==
    IF t # <<>> /\ Head(t) = " " THEN text_lstrip(Tail(t)) ELSE t

RECURSIVE text_rstrip(_)
text_rstrip(t) ==
    IF t # <<>> /\ t[Len(t)] = " "
    THEN text_rstrip(SubSeq(t, 1, Len(t) - 1)) ELSE t

\* input(...).strip(), line 254
text_strip(t) == text_rstrip(text_lstrip(t))

\* the quit words compared as typed
is_quit_word_exact(t) ==
    t \in { InQuit, <<"e","x","i","t">>, InQ }

\* user_input.lower() in ['quit', 'exit', 'q'], line 260
is_quit_word(t) ==
    lower(t) \in { InQuit, <<"e","x","i","t">>, InQ }

\* filter_products is reached, lines 199-206
filter_called(catalog, resp) == catalog # <<>> /\ resp.kind = "ok"

\* the API call is reached, lines 141-195
api_called(catalog) == catalog # <<>>

\* display_results, lines 219-237
display_results(list) == IF list = <<>> THEN "no_products" ELSE "list"

\* ------------------------------------------------------ the service tool

Spotify == <<"S","p","o","t","i","f","y">>
Describe == <<"a"," ","c","h","a","t"," ","a","p","p">>
NoneText == <<"N","o","n","e">>

\* the values a flag can carry; argparse accepts every string
ServiceValues == { EmptyText, Spotify, Describe }

\* a str, or None
Str(t) == [none |-> FALSE, text |-> t]
None == [none |-> TRUE, text |-> EmptyText]

\* args.service and args.text of the mutually exclusive group, lines 201-204
args_service == IF s_flag = "service" THEN Str(s_value) ELSE None
args_text == IF s_flag = "text" THEN Str(s_value) ELSE None

\* `if x:` on a str or None
str_truthy(x) == ~x.none /\ x.text # EmptyText

\* str(x) in an f-string
format_str(x) == IF x.none THEN NoneText ELSE x.text

\* create_analysis_prompt, lines 135-154: the framing and the embedded input
Prompt(f, t) == [framing |-> f, embedded |-> t]
NoPrompt == Prompt("none", EmptyText)
create_analysis_prompt(input_text, is_service_name) ==
    IF is_service_name
    THEN Prompt("well_known_service", format_str(input_text))
    ELSE Prompt("service_description", format_str(input_text))

\* what analyze_service returns
Report(k, m) == [kind |-> k, message |-> m]
NoReport == Report("nothing", "")
ErrorReportBare(m) == Report("error", "")

\* f"Error analyzing service: {str(e)}", line 174
ErrorReport(m) == Report("error", m)

ApiErrors == { "timeout", "authentication" }

ServiceIdle ==
    /\ s_pc = "idle"
    /\ s_has_key = TRUE
    /\ s_flag = "service"
    /\ s_value = EmptyText
    /\ s_output = "absent"
    /\ s_input = None
    /\ s_is_name = FALSE
    /\ s_prompt = NoPrompt
    /\ s_called = FALSE
    /\ s_api = "not_called"
    /\ s_report = NoReport
    /\ s_file = NoReport
    /\ s_printed = NoReport
    /\ s_write_failed = FALSE
    /\ s_exit = -1

\* ------------------------------------------------------------ idle tools

AudioIdle ==
    /\ has_key = TRUE
    /\ has_file = TRUE
    /\ a_pc = "idle"
    /\ calls = <<>>
    /\ word_count = 0
    /\ duration_content = NotAsked
    /\ topics_content = TopicsNotAsked
    /\ analytics = NoAnalytics
    /\ files = {}
    /\ exit_code = -1
    /\ failure = "none"
    /\ analysis_file = NoFile

LoopIdle ==
    /\ catalog_file = "ok"
    /\ p_has_key = TRUE
    /\ p_client = FALSE
    /\ p_called = FALSE
    /\ p_exit = -1
    /\ user_input = NoInput
    /\ shown = "nothing"
    /\ iter_called = FALSE
    /\ filter_applied = FALSE

ProductIdle ==
    /\ products = <<>>
    /\ loaded = <<>>
    /\ response = Resp("none", NoFilters)
    /\ results = <<>>
    /\ run_pc = "idle"
    /\ filtered = <<>>
    /\ pending = {}
    /\ LoopIdle

\* ---------------------------------------------------- audio tool, the run

\* a failed step that is passed over: the run goes on to save_results
AudioPassesOver(step) ==
    /\ a_pc' = "save"
    /\ failure' = step
    /\ UNCHANGED exit_code

\* sys.exit(1), from process_audio or from main, after `step` raised
AudioExit1(step) ==
    /\ a_pc' = "exit"
    /\ exit_code' = 1
    /\ failure' = step

AudioGoes(next) ==
    /\ a_pc' = next
    /\ UNCHANGED <<exit_code, failure>>

\* main, lines 327-329: AudioAnalyzer(api_key) raises without a key
AudioStart ==
    /\ a_pc = "main"
    /\ IF has_key THEN AudioGoes("process") ELSE AudioExit1("api_key")
    /\ UNCHANGED <<has_key, has_file, calls, word_count, duration_content,
                   topics_content, analytics, files, analysis_file,
                   productVars, loopVars, serviceVars>>

\* process_audio, lines 259-262
CheckAudioFile ==
    /\ a_pc = "process"
    /\ IF has_file THEN AudioGoes("transcribe") ELSE AudioExit1("audio_file")
    /\ UNCHANGED <<has_key, has_file, calls, word_count, duration_content,
                   topics_content, analytics, files, analysis_file,
                   productVars, loopVars, serviceVars>>

\* transcribe_audio: the call fails, or gives a transcript
TranscribeAudio ==
    /\ a_pc = "transcribe"
    /\ calls' = Append(calls, "transcription")
    /\ \/ AudioExit1("transcription") /\ UNCHANGED word_count
       \/ \E wc \in WordCounts :
            /\ word_count' = wc
            /\ AudioGoes("summary")
    /\ UNCHANGED <<has_key, has_file, duration_content, topics_content,
                   analytics, files, analysis_file, productVars, loopVars, serviceVars>>

\* generate_summary: the call fails (or has no content), or gives a summary
GenerateSummary ==
    /\ a_pc = "summary"
    /\ calls' = Append(calls, "summary")
    /\ \/ AudioExit1("summary")
       \/ AudioGoes("analytics")
    /\ UNCHANGED <<has_key, has_file, word_count, duration_content,
                   topics_content, analytics, files, analysis_file,
                   productVars, loopVars, serviceVars>>

\* calculate_analytics, the duration call raises
AnalyticsDurationCallFails ==
    /\ a_pc = "analytics"
    /\ calls' = Append(calls, "duration")
    /\ AudioExit1("duration")
    /\ UNCHANGED <<has_key, has_file, word_count, duration_content,
                   topics_content, analytics, files, analysis_file,
                   productVars, loopVars, serviceVars>>

\* calculate_analytics, the topics call raises
AnalyticsTopicsCallFails ==
    /\ a_pc = "analytics"
    /\ calls' = calls \o <<"duration", "topics">>
    /\ \E d \in DurationContents : duration_content' = d
    /\ AudioExit1("topics")
    /\ UNCHANGED <<has_key, has_file, word_count, topics_content, analytics,
                   files, analysis_file, productVars, loopVars, serviceVars>>

\* calculate_analytics, both calls answered
CalculateAnalytics ==
    /\ a_pc = "analytics"
    /\ calls' = calls \o <<"duration", "topics">>
    /\ \E d \in DurationContents, t \in TopicsContents :
         /\ duration_content' = d
         /\ topics_content' = t
         /\ LET p == parse_topics(t)
            IN IF p.raised
               THEN AudioExit1("topics_content") /\ UNCHANGED analytics
               ELSE /\ analytics' = make_analytics(word_count, d, p.topics)
                    /\ AudioGoes("save")
    /\ UNCHANGED <<has_key, has_file, word_count, files, analysis_file,
                   productVars, loopVars, serviceVars>>

\* The files of save_results in the order they are written.
OutputFiles == <<"transcription", "summary", "analysis">>

\* save_results and the rest of process_audio
SaveResults ==
    /\ a_pc = "save"
    /\ files' = { OutputFiles[i] : i \in DOMAIN OutputFiles }
    /\ analysis_file' = json_dump(analytics)
    /\ a_pc' = "done"
    /\ exit_code' = 0
    /\ UNCHANGED <<has_key, has_file, calls, word_count, duration_content,
                   topics_content, analytics, failure, productVars, loopVars, serviceVars>>

\* save_results, the first open raises: the output directory is not writable
SaveResultsFails ==
    /\ a_pc = "save"
    /\ AudioExit1("save")
    /\ UNCHANGED <<has_key, has_file, calls, word_count, duration_content,
                   topics_content, analytics, files, analysis_file,
                   productVars, loopVars, serviceVars>>

AudioInit ==
    /\ has_key \in BOOLEAN
    /\ has_file \in BOOLEAN
    /\ a_pc = "main"
    /\ calls = <<>>
    /\ word_count = 0
    /\ duration_content = NotAsked
    /\ topics_content = TopicsNotAsked
    /\ analytics = NoAnalytics
    /\ files = {}
    /\ exit_code = -1
    /\ failure = "none"
    /\ analysis_file = NoFile
    /\ ProductIdle
    /\ ServiceIdle

AudioNext ==
    \/ AudioStart
    \/ CheckAudioFile
    \/ TranscribeAudio
    \/ GenerateSummary
    \/ AnalyticsDurationCallFails
    \/ AnalyticsTopicsCallFails
    \/ CalculateAnalytics
    \/ SaveResults
    \/ SaveResultsFails

AudioSpec == AudioInit /\ [][AudioNext]_vars

\* -------------------------------------------------- product tool, the run

\* sys.exit(1) in _load_products or _setup_openai_client
ProductExit1 ==
    /\ run_pc' = "exit1"
    /\ p_exit' = 1

catalog_loads_lenient(file) == file # "missing"

\* _load_products returns: the file exists and holds JSON, lines 27-37
catalog_loads(file) == file = "ok"

\* _load_products, lines 25-37
LoadProducts ==
    /\ run_pc = "load"
    /\ IF catalog_loads(catalog_file)
       THEN /\ \E c \in Catalogs : products' = c /\ loaded' = c
            /\ run_pc' = "client"
            /\ UNCHANGED p_exit
       ELSE ProductExit1 /\ UNCHANGED <<products, loaded>>
    /\ UNCHANGED <<response, results, filtered, pending, catalog_file,
                   p_has_key, p_client, p_called, user_input, shown,
                   iter_called, filter_applied, audioVars, audioMore, serviceVars>>

\* _setup_openai_client, lines 39-53
SetupClient ==
    /\ run_pc = "client"
    /\ IF p_has_key
       THEN p_client' = TRUE /\ run_pc' = "prompt" /\ UNCHANGED p_exit
       ELSE ProductExit1 /\ UNCHANGED p_client
    /\ UNCHANGED <<products, loaded, response, results, filtered, pending,
                   catalog_file, p_has_key, p_called, user_input, shown,
                   iter_called, filter_applied, audioVars, audioMore, serviceVars>>

\* An iteration that reaches neither the API nor filter_products.
NoSearch ==
    /\ response' = Resp("none", NoFilters)
    /\ results' = <<>>
    /\ iter_called' = FALSE
    /\ filter_applied' = FALSE
    /\ UNCHANGED <<products, loaded, filtered, pending, catalog_file,
                   p_has_key, p_client, p_called, audioVars, audioMore, serviceVars>>

\* lines 256-258: nothing but white space was typed
RunEmptyInput ==
    /\ run_pc = "prompt"
    /\ \E t \in InputTexts :
         /\ text_strip(t) = EmptyText
         /\ user_input' = TextIn(t)
    /\ shown' = "please_enter"
    /\ UNCHANGED <<run_pc, p_exit>>
    /\ NoSearch

\* lines 260-262: 'quit', 'exit' or 'q'
RunQuit ==
    /\ run_pc = "prompt"
    /\ \E t \in InputTexts :
         /\ text_strip(t) # EmptyText
         /\ is_quit_word(text_strip(t))
         /\ user_input' = TextIn(t)
    /\ shown' = "goodbye"
    /\ run_pc' = "exited"
    /\ p_exit' = 0
    /\ NoSearch

\* lines 273-275: a keyboard interrupt at the prompt
RunInterrupt ==
    /\ run_pc = "prompt"
    /\ user_input' = Interrupt
    /\ shown' = "goodbye"
    /\ run_pc' = "exited"
    /\ p_exit' = 0
    /\ NoSearch

\* lines 276-277: input() raises EOFError, an Exception
RunEndOfInput ==
    /\ run_pc = "prompt"
    /\ user_input' = EndOfInput
    /\ shown' = "error"
    /\ UNCHANGED <<run_pc, p_exit>>
    /\ NoSearch

\* lines 264-271: a query; search_products, then display_results
RunQuery ==
    /\ run_pc = "prompt"
    /\ \E t \in InputTexts :
         /\ text_strip(t) # EmptyText
         /\ ~is_quit_word(text_strip(t))
         /\ user_input' = TextIn(t)
    /\ \E resp \in Responses :
         /\ response' = resp
         /\ results' = search_products(products, resp)
         /\ iter_called' = api_called(products)
         /\ p_called' = (p_called \/ api_called(products))
         /\ filter_applied' = filter_called(products, resp)
         /\ shown' = display_results(results')
    /\ UNCHANGED <<products, loaded, run_pc, filtered, pending, catalog_file,
                   p_has_key, p_client, p_exit, audioVars, audioMore, serviceVars>>

ProductInit ==
    /\ products = <<>>
    /\ loaded = <<>>
    /\ response = Resp("none", NoFilters)
    /\ results = <<>>
    /\ run_pc = "load"
    /\ filtered = <<>>
    /\ pending = {}
    /\ catalog_file \in {"ok", "missing", "invalid"}
    /\ p_has_key \in BOOLEAN
    /\ p_client = FALSE
    /\ p_called = FALSE
    /\ p_exit = -1
    /\ user_input = NoInput
    /\ shown = "nothing"
    /\ iter_called = FALSE
    /\ filter_applied = FALSE
    /\ AudioIdle
    /\ ServiceIdle

ProductNext ==
    \/ LoadProducts
    \/ SetupClient
    \/ RunEmptyInput
    \/ RunQuit
    \/ RunInterrupt
    \/ RunEndOfInput
    \/ RunQuery

ProductSpec == ProductInit /\ [][ProductNext]_vars

\* ------------------------------------------ filter_products as a function
\* A catalog and criteria are drawn at the start; FilterCall is one call of
\* filter_products on them.

FilterInit ==
    /\ products \in Catalogs
    /\ loaded = products
    /\ response \in { Resp("ok", a) : a \in FilterArgs }
    /\ results = <<>>
    /\ run_pc = "call"
    /\ filtered = <<>>
    /\ pending = {}
    /\ LoopIdle
    /\ AudioIdle
    /\ ServiceIdle

FilterCall ==
    /\ run_pc = "call"
    /\ results' = filter_products(products, response.arguments)
    /\ run_pc' = "returned"
    /\ UNCHANGED <<products, loaded, response, filtered, pending, loopVars,
                   audioVars, audioMore, serviceVars>>

FilterNext == FilterCall

FilterSpec == FilterInit /\ [][FilterNext]_vars

\* ------------------------------------------- the filter steps, one at a time
\* The body of filter_products on a catalog and criteria drawn at the start:
\* each of the six steps is applied once to `filtered`, in an order that is
\* not fixed.

\* The catalogs that list no product twice.
NoRepeat(c) == \A i, j \in DOMAIN c : c[i] = c[j] => i = j

OrderInit ==
    /\ products \in { c \in Catalogs : NoRepeat(c) }
    /\ loaded = products
    /\ response \in { Resp("ok", a) : a \in FilterArgs }
    /\ results = <<>>
    /\ run_pc = "steps"
    /\ filtered = products          \* filtered = products.copy()
    /\ pending = StepIds
    /\ LoopIdle
    /\ AudioIdle
    /\ ServiceIdle

ApplyStep ==
    /\ run_pc = "steps"
    /\ \E i \in pending :
         /\ filtered' = filter_step(i, filtered, response.arguments)
         /\ pending' = pending \ {i}
    /\ UNCHANGED <<products, loaded, response, results, run_pc, loopVars,
                   audioVars, audioMore, serviceVars>>

OrderNext == ApplyStep

OrderSpec == OrderInit /\ [][OrderNext]_vars

\* ---------------------------------------------- the service tool, the run

\* main, lines 211-225: the key, the analyzer, the input type
ServiceStart ==
    /\ s_pc = "main"
    /\ IF ~s_has_key
       THEN /\ s_pc' = "exit"
            /\ s_exit' = 1
            /\ UNCHANGED <<s_input, s_is_name>>
       ELSE /\ s_pc' = "analyze"
            /\ IF str_truthy(args_service)
               THEN s_input' = args_service /\ s_is_name' = TRUE
               ELSE s_input' = args_text /\ s_is_name' = FALSE
            /\ UNCHANGED s_exit
    /\ UNCHANGED <<s_has_key, s_flag, s_value, s_output, s_prompt, s_called,
                   s_api, s_report, s_file, s_printed, s_write_failed, productVars,
                   loopVars, audioVars, audioMore>>

\* analyze_service, lines 156-174
ServiceAnalyze ==
    /\ s_pc = "analyze"
    /\ s_prompt' = create_analysis_prompt(s_input, s_is_name)
    /\ s_called' = TRUE
    /\ \/ s_api' = "answered" /\ s_report' = Report("analysis", "")
       \/ s_api' = "no_content" /\ s_report' = Report("no_content", "")
       \/ \E e \in ApiErrors : s_api' = e /\ s_report' = ErrorReport(e)
    /\ s_pc' = "output"
    /\ UNCHANGED <<s_has_key, s_flag, s_value, s_output, s_input, s_is_name,
                   s_file, s_printed, s_write_failed, s_exit, productVars,
                   loopVars, audioVars, audioMore>>

\* main, lines 234-247: the report goes to the file or to the console
ServiceOutput ==
    /\ s_pc = "output"
    /\ IF s_output = "path"
       THEN \/ /\ s_report.kind # "no_content"   \* f.write(None) raises
               /\ s_file' = s_report
               /\ s_pc' = "done"
               /\ s_exit' = 0
               /\ UNCHANGED <<s_printed, s_write_failed>>
            \/ /\ s_write_failed' = TRUE
               /\ s_pc' = "exit"
               /\ s_exit' = 1
               /\ UNCHANGED <<s_file, s_printed>>
       ELSE /\ s_printed' = s_report
            /\ s_pc' = "done"
            /\ s_exit' = 0
            /\ UNCHANGED <<s_file, s_write_failed>>
    /\ UNCHANGED <<s_has_key, s_flag, s_value, s_output, s_input, s_is_name,
                   s_prompt, s_called, s_api, s_report, productVars, loopVars,
                   audioVars, audioMore>>

ServiceInit ==
    /\ s_pc = "main"
    /\ s_has_key \in BOOLEAN
    /\ s_flag \in {"service", "text"}
    /\ s_value \in ServiceValues
    /\ s_output \in {"absent", "empty", "path"}
    /\ s_input = None
    /\ s_is_name = FALSE
    /\ s_prompt = NoPrompt
    /\ s_called = FALSE
    /\ s_api = "not_called"
    /\ s_report = NoReport
    /\ s_file = NoReport
    /\ s_printed = NoReport
    /\ s_write_failed = FALSE
    /\ s_exit = -1
    /\ ProductIdle
    /\ AudioIdle

ServiceNext ==
    \/ ServiceStart
    \/ ServiceAnalyze
    \/ ServiceOutput

ServiceSpec == ServiceInit /\ [][ServiceNext]_vars

\* ------------------------------------------------- the start of each tool
\* One of the three tools is started and runs up to its first API call.

StartupInit ==
    \/ ProductInit
    \/ AudioInit
    \/ ServiceInit

\* the first query typed at the prompt
FirstQuery == ~p_called /\ RunQuery

StartupNext ==
    \/ LoadProducts
    \/ SetupClient
    \/ FirstQuery
    \/ AudioStart
    \/ CheckAudioFile
    \/ TranscribeAudio
    \/ ServiceStart
    \/ ServiceAnalyze

StartupSpec == StartupInit /\ [][StartupNext]_vars

\* ================================================================ claims

args == response.arguments
Returned == run_pc = "returned"

InSeq(x, seq) == \E i \in DOMAIN seq : seq[i] = x

\* Two texts equal up to the case of their letters.
SameIgnoringCase(a, b) ==
    /\ Len(a) = Len(b)
    /\ \A i \in DOMAIN a :
         \/ a[i] = b[i]
         \/ \E j \in DOMAIN UpperChars :
              {a[i], b[i]} = {UpperChars[j], LowerChars[j]}

\* sub is seq with some elements left out, the rest in order.
RECURSIVE IsSubSeq(_, _)
IsSubSeq(sub, seq) ==
    IF sub = <<>> THEN TRUE
    ELSE IF seq = <<>> THEN FALSE
    ELSE IF Head(sub) = Head(seq)
         THEN IsSubSeq(Tail(sub), Tail(seq))
         ELSE IsSubSeq(sub, Tail(seq))

\* The criteria with one of them taken out.
Without(a, key) ==
    [a EXCEPT ![key] =
        CASE key = "product_names" -> NoNames
          [] key = "category" -> NoText
          [] key = "in_stock" -> NoBool
          [] OTHER -> NoNum]

\* C1 (OrderSpec): once the six filter steps have been applied, in whatever
\* order, the list left is the list filter_products returns with the steps
\* in the order of the code.
C1_OrderIndependent ==
    (run_pc = "steps" /\ pending = {})
        => filtered = filter_products(products, args)

C1_Witness ==
    /\ run_pc = "steps"
    /\ pending = {}
    /\ given_count(args) >= 3
    /\ filtered # <<>>
    /\ Len(filtered) < Len(products)

\* C2 (FilterSpec), the claim as stated: with a list as product_names and no
\* other criterion, filter_products returns exactly the records whose name is
\* in the list, for a list of any length.
C2_NamesOnlyExact ==
    (/\ Returned
     /\ args.product_names.given
     /\ args.product_names.is_list
     /\ given_count(args) = 1)
        => LET keep(p) == InSeq(p.name, args.product_names.names)
           IN results = SelectSeq(products, keep)

\* C3 (FilterSpec): with max_price and min_price both given and
\* max_price < min_price the result is empty, whatever else is given.
C3_EmptyWhenMaxBelowMin ==
    (/\ Returned
     /\ args.max_price.given
     /\ args.min_price.given
     /\ args.max_price.num < args.min_price.num)
        => results = <<>>

C3_Witness ==
    /\ Returned
    /\ args.max_price.given
    /\ args.min_price.given
    /\ args.max_price.num < args.min_price.num
    /\ \E i \in DOMAIN products : products[i].price >= args.min_price.num
    /\ filter_products(products, Without(Without(args, "max_price"), "min_price"))
           # <<>>

\* C4 (FilterSpec): a given max_price, min_price or min_rating, 0 included,
\* keeps of the records that pass the other criteria exactly those with
\* price <= v, price >= v, rating >= v: nothing above or below the bound
\* stays and a record at the bound is kept.
C4_InclusiveBounds ==
    Returned =>
        /\ args.max_price.given =>
             LET keep(p) == p.price <= args.max_price.num
             IN results = SelectSeq(
                    filter_products(products, Without(args, "max_price")), keep)
        /\ args.min_price.given =>
             LET keep(p) == p.price >= args.min_price.num
             IN results = SelectSeq(
                    filter_products(products, Without(args, "min_price")), keep)
        /\ args.min_rating.given =>
             LET keep(p) == p.rating >= args.min_rating.num
             IN results = SelectSeq(
                    filter_products(products, Without(args, "min_rating")), keep)

C4_Witness ==
    /\ Returned
    /\ args.max_price.given /\ args.max_price.num = 0
    /\ args.min_price.given /\ args.min_price.num = 0
    /\ args.min_rating.given /\ args.min_rating.num = 0
    /\ results # <<>>
    /\ Len(results) < Len(products)
    /\ \A i \in DOMAIN results :
         results[i].price = 0 /\ results[i].rating = 0

\* C5 (FilterSpec): a given in_stock, true or false, keeps of the records
\* that pass the other criteria exactly those whose flag equals it.
C5_InStockExact ==
    (Returned /\ args.in_stock.given)
        => LET keep(p) == p.in_stock = args.in_stock.flag
           IN results = SelectSeq(
                  filter_products(products, Without(args, "in_stock")), keep)

C5_Witness ==
    /\ Returned
    /\ args.in_stock.given
    /\ args.in_stock.flag = FALSE
    /\ results # <<>>
    /\ Len(results) < Len(products)
    /\ \A i \in DOMAIN results : results[i].in_stock = FALSE

\* C6 (FilterSpec), the claim as stated: a given category keeps of the
\* records that pass the other criteria exactly those whose category is the
\* given one up to letter case.
C6_CategoryAnyText ==
    (Returned /\ args.category.given)
        => LET keep(p) == SameIgnoringCase(p.category, args.category.text)
           IN results = SelectSeq(
                  filter_products(products, Without(args, "category")), keep)

\* C6 (FilterSpec), amended: a given category that is not the empty string
\* keeps of the records that pass the other criteria exactly those whose
\* category is the given one up to letter case; the empty string filters
\* nothing, like an absent category.
C6_CategoryNonEmpty ==
    (Returned /\ args.category.given)
        => IF args.category.text # EmptyText
           THEN LET keep(p) == SameIgnoringCase(p.category, args.category.text)
                IN results = SelectSeq(
                       filter_products(products, Without(args, "category")),
                       keep)
           ELSE results = filter_products(products, Without(args, "category"))

C6_Witness ==
    /\ Returned
    /\ args.category.given
    /\ args.category.text = books
    /\ Len(results) < Len(products)
    /\ \E i \in DOMAIN results : results[i].category = BOOKS

\* C7 (ProductSpec): the catalog is what was loaded, and the list returned
\* last is the catalog with some records left out, the rest in catalog order.
C7_CatalogUntouched ==
    /\ products = loaded
    /\ IsSubSeq(results, products)

C7_Witness ==
    /\ response.kind = "ok"
    /\ Len(products) >= 2
    /\ results # <<>>
    /\ Len(results) < Len(products)

\* ---- audio tool

DurationUnparsed == duration_content.kind \in {"none", "text"}

\* C8 (AudioSpec), the claim as stated: with a duration response that is no
\* number the record has speaking_speed_wpm = 150 and
\* estimated_duration_minutes = word_count / 150.
C8_FallbackExact ==
    (analytics.made /\ DurationUnparsed)
        => /\ analytics.speaking_speed_wpm = 150
           /\ analytics.estimated_duration_minutes.k = "fin"
           /\ analytics.estimated_duration_minutes.num * 150
                = word_count * analytics.estimated_duration_minutes.den

\* C8 (AudioSpec), amended: with a duration response that is no number the
\* record has speaking_speed_wpm = 150 and estimated_duration_minutes equal
\* to word_count / 150 rounded to one decimal place (a count T of tenths
\* with |T/10 - word_count/150| < 1/20).
C8_FallbackRounded ==
    (analytics.made /\ DurationUnparsed)
        => /\ analytics.speaking_speed_wpm = 150
           /\ analytics.word_count = word_count
           /\ analytics.estimated_duration_minutes.k = "fin"
           /\ analytics.estimated_duration_minutes.den = 10
           /\ LET T == analytics.estimated_duration_minutes.num
              IN /\ 30 * T > 2 * word_count - 15
                 /\ 30 * T < 2 * word_count + 15

C8_Witness ==
    /\ analytics.made
    /\ duration_content.kind = "text"
    /\ word_count = MaxWords
    /\ analytics.estimated_duration_minutes.num > 0

\* A topics response that is a JSON array of topic objects, code fences or
\* not.
TopicsConform ==
    /\ topics_content.kind = "text"
    /\ LET parsed == json_loads(clean_topics_text(topics_content.toks))
       IN parsed.ok /\ parsed.value.t = "topics_array"

\* C9 (AudioSpec), the claim as stated: a topics response that is no JSON
\* array of topic objects gives the single default topic, and the run goes
\* on.
C9_TopicsDefaulted ==
    (topics_content.kind # "not_asked" /\ ~TopicsConform)
        => /\ analytics.made
           /\ analytics.frequently_mentioned_topics = DefaultTopics
           /\ exit_code # 1

\* C10 (AudioSpec), the claim as stated: a duration of zero or less gives
\* what a parse failure gives, speaking_speed_wpm = 150 and the duration
\* word_count / 150 (to one decimal place in the record).
C10_NonPositiveAsFailure ==
    (/\ analytics.made
     /\ duration_content.kind = "number"
     /\ duration_content.val.k = "fin"
     /\ duration_content.val.num <= 0)
        => /\ analytics.speaking_speed_wpm = 150
           /\ analytics.estimated_duration_minutes
                = Fin(round_int(10 * word_count, 150), 10)

\* C11: a start-up configuration error ends the run with exit status 1
\* before any API call: a missing or malformed catalog file (product tool,
\* checked before the credentials, so no API client is constructed), a
\* missing API key (each tool), a missing audio file (audio tool).
ProductStartupError ==
    /\ (run_pc # "load" /\ catalog_file \in {"missing", "invalid"})
          => (p_exit = 1 /\ ~p_client /\ ~p_called)
    /\ (run_pc \notin {"load", "client"} /\ ~p_has_key)
          => (p_exit = 1 /\ ~p_called)
AudioStartupError ==
    /\ (a_pc # "main" /\ ~has_key) => (exit_code = 1 /\ calls = <<>>)
    /\ (a_pc \notin {"main", "process"} /\ ~has_file)
          => (exit_code = 1 /\ calls = <<>>)
ServiceStartupError ==
    (s_pc # "main" /\ ~s_has_key) => (s_exit = 1 /\ ~s_called)
C11_StartupErrorExits ==
    /\ ProductStartupError
    /\ AudioStartupError
    /\ ServiceStartupError
    /\ p_exit = 1 => ~p_called
    /\ (exit_code = 1 /\ failure \in {"api_key", "audio_file"}) => calls = <<>>
C11_Witness ==
    /\ run_pc = "exit1"
    /\ catalog_file = "invalid"
    /\ ~p_has_key
    /\ ~p_client
    /\ p_exit = 1

\* C12: search_products returns an empty list and applies no filter when the
\* response carries no function call, a function call whose name is not
\* filter_products, or arguments that do not parse as a JSON mapping
\* (unparseable text, or JSON that is not an object).
UnusableResponses == {"no_function_call", "wrong_name", "bad_json", "not_mapping"}
C12_UnusableResponseEmpty ==
    (user_input.kind = "text" /\ response.kind \in UnusableResponses)
        => (results = <<>> /\ ~filter_applied)
C12_Witness ==
    /\ user_input = TextIn(InQuery)
    /\ response.kind = "wrong_name"
    /\ products # <<>>
    /\ iter_called
    /\ results = <<>>
    /\ ~filter_applied

\* C13: the audio tool issues its API calls in the order transcription,
\* summary, duration estimate, topic extraction, and saves afterwards; when
\* a call fails the run ends with exit status 1, no later call is issued and
\* no output file is written; files are written only after all four calls.
FourCalls == <<"transcription", "summary", "duration", "topics">>
CallsInOrder ==
    /\ Len(calls) <= Len(FourCalls)
    /\ calls = SubSeq(FourCalls, 1, Len(calls))
C13_CallsThenSave ==
    /\ CallsInOrder
    /\ failure \in { FourCalls[i] : i \in DOMAIN FourCalls }
          => /\ exit_code = 1
             /\ a_pc = "exit"
             /\ calls # <<>>
             /\ calls[Len(calls)] = failure
             /\ files = {}
    /\ files # {} => (calls = FourCalls /\ analytics.made)
C13_Witness ==
    /\ failure = "duration"
    /\ calls = <<"transcription", "summary", "duration">>
    /\ exit_code = 1
    /\ files = {}

\* C14: a failed inference call does not abort the service tool:
\* analyze_service returns "Error analyzing service: <message>", which is
\* written to the output file (output path given) or printed, and the exit
\* status is 0; exit status 1 occurs only for a missing API key or a failed
\* write of the output file.
ServiceEnded == s_pc \in {"done", "exit"}
InferenceFailed == s_api \in ApiErrors
ErrorText == [kind |-> "error", message |-> s_api]
C14_FailureIsReport ==
    /\ (InferenceFailed /\ ServiceEnded /\ ~s_write_failed)
          => /\ s_exit = 0
             /\ s_report = ErrorText
             /\ s_output = "path" => s_file = ErrorText
             /\ s_output = "absent" => s_printed = ErrorText
             /\ s_file = ErrorText \/ s_printed = ErrorText
    /\ s_exit = 1 => (~s_has_key \/ s_write_failed)
C14_Witness ==
    /\ s_api = "timeout"
    /\ s_output = "path"
    /\ s_file = ErrorText
    /\ s_pc = "done"
    /\ s_exit = 0

\* C15: reading back the JSON that save_results wrote gives the same
\* word_count, speaking_speed_wpm and estimated_duration_minutes and the
\* same topic list as the analytics that were computed.
ReadBack == json_load(analysis_file)
C15_ReadBackEqual ==
    analysis_file.written
        => /\ ReadBack.word_count = analytics.word_count
           /\ ReadBack.speaking_speed_wpm = analytics.speaking_speed_wpm
           /\ float_eq(ReadBack.estimated_duration_minutes,
                       analytics.estimated_duration_minutes)
           /\ ReadBack.frequently_mentioned_topics
                  = analytics.frequently_mentioned_topics

\* C16: a topics response that is a JSON array wrapped in markdown fences
\* (``` or ```json before it, ``` after it) has the fences removed, and
\* frequently_mentioned_topics is the enclosed array, not the default topic.
Blanks == { <<>>, <<Space>> }
FencedArrays ==
    { open \o before \o <<ValueTok(TopicsA)>> \o after \o <<Fence>> :
        open \in { <<Fence>>, <<Fence, JsonWord>> },
        before \in Blanks, after \in Blanks }
C16_FencedArrayParsed ==
    (topics_content.kind = "text" /\ topics_content.toks \in FencedArrays)
        => /\ analytics.made
           /\ analytics.frequently_mentioned_topics = TopicsA
           /\ analytics.frequently_mentioned_topics # DefaultTopics
           /\ exit_code # 1 \/ failure = "save"
C16_Witness ==
    /\ topics_content = TopicsText(<<Fence, JsonWord, ValueTok(TopicsA), Fence>>)
    /\ analytics.frequently_mentioned_topics = TopicsA
    /\ a_pc = "done"
    /\ analysis_file.written

\* C17: the framing of the service tool's prompt follows the flag alone:
\* every value passed with --service (the empty string included) gives the
\* 'well-known service' framing with that value embedded, and every value
\* passed with --text gives the 'service description' framing with that
\* value embedded.
C17_FramingByFlag ==
    s_called
        => /\ s_prompt.embedded = s_value
           /\ s_flag = "service" => s_prompt.framing = "well_known_service"
           /\ s_flag = "text" => s_prompt.framing = "service_description"

\* C18: the interactive loop of the product tool ends only when the trimmed
\* input is 'quit', 'exit' or 'q' in any letter case, or on a keyboard
\* interrupt; empty input issues no API call and prompts again; a failed
\* query gives an empty result shown as 'no products found' and the loop
\* prompts again; end of input is reported and the loop continues.
QuitInputs == { TextIn(t) : t \in { InQuit, InQUIT, InExit, InQ } }
EmptyInputs == { TextIn(t) : t \in { EmptyText, InBlank } }
LoopEnded == run_pc = "exited"
LoopPrompts == run_pc = "prompt"
C18_LoopEndsOnQuitOnly ==
    /\ LoopEnded <=> (user_input \in QuitInputs \/ user_input = Interrupt)
    /\ user_input \in EmptyInputs
          => (LoopPrompts /\ ~iter_called /\ shown = "please_enter")
    /\ (user_input = TextIn(InQuery) /\ response.kind \in FailureKinds)
          => (LoopPrompts /\ results = <<>> /\ shown = "no_products")
    /\ user_input = EndOfInput => (LoopPrompts /\ shown = "error")
C18_Witness ==
    /\ user_input = TextIn(InExit)
    /\ LoopEnded
    /\ p_called
    /\ shown = "goodbye"
    /\ p_exit = 0

====
